---- MODULE Spec2Model ----
(***************************************************************************)
(* The streaming pipeline of src/index.ts:                                 *)
(*   rows (knex stream) -> groupBy -> map(build Reservation)               *)
(*        -> map(serialize JSON line) -> Readable.from -> pipeline -> file *)
(* Every async generator is a state machine that only runs when its        *)
(* downstream calls next() or return() on it; one TLA+ action is the code  *)
(* a generator executes between two suspension points (an await of the     *)
(* upstream's next()/return(), or a yield).                                *)
(***************************************************************************)
EXTENDS Naturals, Sequences, FiniteSets, TLC

\* Bound: the source produces at most MaxLen rows before it ends or fails.
MaxLen == 3

----------------------------------------------------------------------------
\* Values

Undefined == "undefined"
Null == "null"

\* Values of the column reservation_id (the grouping key of line 70).
ReservationIds == {"1", "2", Undefined}
\* Values of the column reservation_line_id (null: left join without a line).
LineIds == {"a", "b", Null}
\* Values of the column store_id.
StoreIds == {"s1"}

MkRow(rid, sid, lid) ==
  [reservation_id |-> rid, store_id |-> sid, reservation_line_id |-> lid,
   description |-> IF lid = Null THEN Null ELSE "text",
   quantity |-> IF lid = Null THEN Null ELSE "1"]

\* A row on which the key function f raises.
BadRow == MkRow("throws", "s1", Null)

Rows ==
  {MkRow(rid, sid, lid) : rid \in ReservationIds, sid \in StoreIds, lid \in LineIds}
    \cup {BadRow}

\* f of line 70, (r) => r["reservation_id"], as groupBy calls it.
KeyRaises(row) == row = BadRow
KeyOf(row) == row.reservation_id

\* Results of next() / return() on an async iterator.
None == [t |-> "none"]
Done == [t |-> "done"]
Value(v) == [t |-> "value", v |-> v]
Throw(e) == [t |-> "throw", e |-> e]
\* A generator closed by return().
Returned == [t |-> "return"]

SourceError == "sourceError"
KeyError == "keyError"
BuildError == "buildError"
SerializeError == "serializeError"
SinkError == "sinkError"

----------------------------------------------------------------------------
\* Pure functions of the pipeline

\* A groupBy that closes its group on every row.
KeyChanged_Always(currentKey, rowKey) == TRUE

\* Line 29: currentGroupKey !== f(row)
KeyChanged(currentKey, rowKey) == currentKey # rowKey

\* Line 27: currentGroupKey === undefined
NoKeyYet(currentKey) == currentKey = Undefined

\* A groupBy that puts the row in front: [row, ...currentGroup].
AppendRow_Prepend(group, row) == <<row>> \o group

\* Line 34: currentGroup = [...currentGroup, row]
AppendRow(group, row) == Append(group, row)

\* Lines 78-82: the Line built from one row.
LineOf(row) ==
  [id |-> row.reservation_line_id, description |-> row.description,
   quantity |-> row.quantity]

\* A mapper without the null test of line 77: one Line per row, always.
LinesOf_NoNullTest(groupedRows) ==
  [i \in 1..Len(groupedRows) |-> LineOf(groupedRows[i])]

\* Lines 76-83: the lines of a Reservation.
LinesOf(groupedRows) ==
  IF groupedRows[1].reservation_line_id # Null
    THEN [i \in 1..Len(groupedRows) |-> LineOf(groupedRows[i])]
    ELSE <<>>

\* Lines 71-85: the group-to-Reservation mapper.
BuildReservation(groupedRows) ==
  [id |-> groupedRows[1].reservation_id,
   storeId |-> groupedRows[1].store_id,
   lines |-> LinesOf(groupedRows)]

\* README.md, lines 61-96: groupAndTransformRowsToReservations, the in-memory
\* version index.ts rewrites (lines 140-175 are the same loop, yielding).
\* One pass of the loop body over row, from the state
\* [cur |-> currentReservation, out |-> groupedReservations].
ReadmeNewReservation(row) ==
  [id |-> row.reservation_id, storeId |-> row.store_id, lines |-> <<>>]

ReadmeAddLine(reservation, row) ==
  [reservation EXCEPT !.lines = Append(@, LineOf(row))]

ReadmeOnRow(s, row) ==
  IF s.cur.t = "none"
    THEN [cur |-> Value(ReadmeAddLine(ReadmeNewReservation(row), row)),
          out |-> s.out]
    ELSE IF s.cur.v.id # row.reservation_id
      THEN [cur |-> Value(ReadmeAddLine(ReadmeNewReservation(row), row)),
            out |-> Append(s.out, s.cur.v)]
      ELSE [cur |-> Value(ReadmeAddLine(s.cur.v, row)), out |-> s.out]

RECURSIVE ReadmeLoop(_, _)
ReadmeLoop(s, rows) ==
  IF rows = <<>> THEN s ELSE ReadmeLoop(ReadmeOnRow(s, Head(rows)), Tail(rows))

groupAndTransformRowsToReservations(rows) ==
  LET s == ReadmeLoop([cur |-> None, out |-> <<>>], rows)
  IN IF s.cur.t = "none" THEN s.out ELSE Append(s.out, s.cur.v)

RECURSIVE Flatten(_)
Flatten(ss) == IF ss = <<>> THEN <<>> ELSE Head(ss) \o Flatten(Tail(ss))

\* JSON.stringify of one Line, as a sequence of tokens.
StringifyLine(l) ==
  <<"{", "id", l.id, "description", l.description, "quantity", l.quantity, "}">>

\* JSON.stringify of a Reservation: a property whose value is undefined is
\* left out of the text.
Stringify(r) ==
  <<"{">> \o (IF r.id = Undefined THEN <<>> ELSE <<"id", r.id>>)
    \o <<"storeId", r.storeId, "lines", "[">>
    \o Flatten([i \in 1..Len(r.lines) |-> StringifyLine(r.lines[i])])
    \o <<"]", "}">>

\* A serializer that forgets the line separator.
SerializeLine_NoSeparator(r) == Stringify(r)

\* Line 87: (r) => `${JSON.stringify(r)}\n`
SerializeLine(r) == Stringify(r) \o <<"\n">>

----------------------------------------------------------------------------
\* Stages

Maps == {"build", "serialize"}
Generators == {"groupBy"} \cup Maps
Stages == {"rows"} \cup Generators

\* Lines 68-88: what each generator iterates.
Upstream(s) ==
  CASE s = "serialize" -> "build"
    [] s = "build" -> "groupBy"
    [] s = "groupBy" -> "rows"

\* The function f of each map stage (lines 71-85 and 87).
MapF(m, x) == IF m = "build" THEN BuildReservation(x) ELSE SerializeLine(x)
MapError(m) == IF m = "build" THEN BuildError ELSE SerializeError

VARIABLES
  pulled,           \* rows: the rows the source has produced so far
  srcState,         \* rows: "open", "ended", "errored", "destroyed"
  call,             \* call[s]: the request pending on stage s
  res,              \* res[s]: the result of s its caller has not taken yet
  st,               \* st[g]: where generator g is suspended
  pend,             \* pend[g]: the error g is about to throw
  fin,              \* history: fin[g], how generator g completed
  raised,           \* history: the generators whose function f has raised
  currentGroupKey,  \* groupBy, line 24
  currentGroup,     \* groupBy, line 25
  row,              \* groupBy, line 26: the loop variable
  emitted,          \* history: the groups groupBy has yielded
  mRow,             \* map, line 42: mRow[m], the loop variable of stage m
  mIn,              \* history: mIn[m], the elements map stage m has taken
  mOut,             \* history: mOut[m], the elements map stage m has yielded
  nReq,             \* history: nReq[s], the next() calls made on stage s
  dState,           \* Readable.from + pipeline
  written,          \* the lines handed to the file sink
  dErr,             \* the error the pipeline was destroyed with
  outcome,          \* main().then / main().catch
  reported,         \* the error main().catch logs
  iRows,            \* two pipelines: iRows[i], the rows of the source of i
  iPulled,          \* iPulled[i]: how many of them groupBy i has pulled
  iSt,              \* iSt[i]: where groupBy i is suspended
  iCurrentGroupKey, \* iCurrentGroupKey[i]: line 24, of groupBy i
  iCurrentGroup,    \* the slots that hold line 25's currentGroup
  iRow,             \* iRow[i]: line 26, the loop variable of groupBy i
  iEmitted,         \* history: the groups groupBy i has yielded
  iLines            \* history: the lines pipeline i has yielded

\* The variables of the one pipeline main() runs.
pVars ==
  <<pulled, srcState, call, res, st, pend, fin, raised, currentGroupKey, currentGroup, row,
    emitted, mRow, mIn, mOut, nReq, dState, written, dErr, outcome, reported>>

\* The variables of two pipelines run side by side.
iVars ==
  <<iRows, iPulled, iSt, iCurrentGroupKey, iCurrentGroup, iRow, iEmitted, iLines>>

vars == <<pVars, iVars>>

Instances == {1, 2}

srcVars == <<pulled, srcState>>
gVars == <<currentGroupKey, currentGroup, row, emitted>>
mVars == <<mRow, mIn, mOut>>
dVars == <<dState, written, dErr, outcome, reported>>
hVars == <<fin, raised>>

\* Two pipelines just constructed, over the sources rs[1] and rs[2].
InitInstances(rs) ==
  /\ iRows = rs
  /\ iPulled = [i \in Instances |-> 0]
  /\ iSt = [i \in Instances |-> "start"]
  /\ iCurrentGroupKey = [i \in Instances |-> Undefined]
  /\ iCurrentGroup = [i \in Instances |-> <<>>]
  /\ iRow = [i \in Instances |-> None]
  /\ iEmitted = [i \in Instances |-> <<>>]
  /\ iLines = [i \in Instances |-> <<>>]

InitPipeline ==
  /\ pulled = <<>>
  /\ srcState = "open"
  /\ call = [s \in Stages |-> "none"]
  /\ res = [s \in Stages |-> None]
  /\ st = [g \in Generators |-> "start"]
  /\ pend = [g \in Generators |-> "none"]
  /\ fin = [g \in Generators |-> None]
  /\ raised = {}
  /\ currentGroupKey = Undefined
  /\ currentGroup = <<>>
  /\ row = None
  /\ emitted = <<>>
  /\ mRow = [m \in Maps |-> None]
  /\ mIn = [m \in Maps |-> <<>>]
  /\ mOut = [m \in Maps |-> <<>>]
  /\ nReq = [s \in Stages |-> 0]
  /\ dState = "idle"
  /\ written = <<>>
  /\ dErr = "none"
  /\ outcome = "running"
  /\ reported = "none"

Init == InitPipeline /\ InitInstances([i \in Instances |-> <<>>])

\* s calls next() on its upstream and awaits the result.
PullUpstream(s, c, n) ==
  /\ call' = [c EXCEPT ![Upstream(s)] = "next"]
  /\ nReq' = [n EXCEPT ![Upstream(s)] = @ + 1]

----------------------------------------------------------------------------
\* rows: the knex stream of lines 59-66, iterated by groupBy (line 26)

\* rows answers a next(): one more row, the end of the stream, or an error.
SourceNext ==
  /\ call["rows"] = "next"
  /\ srcState = "open"
  /\ \/ \E r \in Rows :
          /\ Len(pulled) < MaxLen
          /\ pulled' = Append(pulled, r)
          /\ res' = [res EXCEPT !["rows"] = Value(r)]
          /\ UNCHANGED srcState
     \/ /\ srcState' = "ended"
        /\ res' = [res EXCEPT !["rows"] = Done]
        /\ UNCHANGED pulled
     \/ /\ srcState' = "errored"
        /\ res' = [res EXCEPT !["rows"] = Throw(SourceError)]
        /\ UNCHANGED pulled
  /\ call' = [call EXCEPT !["rows"] = "none"]
  /\ UNCHANGED <<st, pend, nReq>>
  /\ UNCHANGED <<gVars, mVars, dVars>>
  /\ UNCHANGED hVars
  /\ UNCHANGED iVars

\* rows answers a return(): the stream is destroyed.
SourceReturn ==
  /\ call["rows"] = "return"
  /\ srcState' = "destroyed"
  /\ res' = [res EXCEPT !["rows"] = Done]
  /\ call' = [call EXCEPT !["rows"] = "none"]
  /\ UNCHANGED <<pulled, st, pend, nReq>>
  /\ UNCHANGED <<gVars, mVars, dVars>>
  /\ UNCHANGED hVars
  /\ UNCHANGED iVars

----------------------------------------------------------------------------
\* groupBy, lines 23-39

\* A groupBy that forgets the reset of line 32.
GroupAfterYield_Keep(group) == group

\* Line 32: currentGroup = []
GroupAfterYield(group) == <<>>

\* First next(): lines 24-26, up to the first await of rows.
GroupByStart ==
  /\ call["groupBy"] = "next"
  /\ st["groupBy"] = "start"
  /\ st' = [st EXCEPT !["groupBy"] = "await"]
  /\ PullUpstream("groupBy", call, nReq)
  /\ UNCHANGED <<res, pend>>
  /\ UNCHANGED <<srcVars, gVars, mVars, dVars>>
  /\ UNCHANGED hVars
  /\ UNCHANGED iVars

\* Lines 27-34 for a row on which f returns: either the yield of line 30,
\* or the append of line 34 and the next await of line 26.
GroupByOnRow ==
  /\ st["groupBy"] = "await"
  /\ res["rows"].t = "value"
  /\ ~KeyRaises(res["rows"].v)
  /\ LET r == res["rows"].v IN
       IF ~NoKeyYet(currentGroupKey) /\ KeyChanged(currentGroupKey, KeyOf(r))
         THEN /\ res' = [res EXCEPT !["rows"] = None,
                                    !["groupBy"] = Value(currentGroup)]
              /\ call' = [call EXCEPT !["groupBy"] = "none"]
              /\ st' = [st EXCEPT !["groupBy"] = "yield"]
              /\ row' = Value(r)
              /\ emitted' = Append(emitted, currentGroup)
              /\ UNCHANGED <<currentGroupKey, currentGroup, nReq>>
         ELSE /\ currentGroupKey' =
                   IF NoKeyYet(currentGroupKey) THEN KeyOf(r) ELSE currentGroupKey
              /\ currentGroup' = AppendRow(currentGroup, r)
              /\ res' = [res EXCEPT !["rows"] = None]
              /\ PullUpstream("groupBy", call, nReq)
              /\ UNCHANGED <<st, row, emitted>>
  /\ UNCHANGED pend
  /\ UNCHANGED <<srcVars, mVars, dVars>>
  /\ UNCHANGED hVars
  /\ UNCHANGED iVars

\* Line 28 or 29 for a row on which f raises: the for await loop is left by
\* the exception, which closes rows (return()) before the error goes on.
GroupByKeyRaises ==
  /\ st["groupBy"] = "await"
  /\ res["rows"].t = "value"
  /\ KeyRaises(res["rows"].v)
  /\ st' = [st EXCEPT !["groupBy"] = "aborting"]
  /\ pend' = [pend EXCEPT !["groupBy"] = KeyError]
  /\ res' = [res EXCEPT !["rows"] = None]
  /\ call' = [call EXCEPT !["rows"] = "return"]
  /\ UNCHANGED nReq
  /\ UNCHANGED <<srcVars, gVars, mVars, dVars>>
  /\ raised' = raised \cup {"groupBy"}
  /\ UNCHANGED fin
  /\ UNCHANGED iVars

\* next() after the yield of line 30: lines 31-34, then the await of line 26.
\* f(row) of line 31 returns what it returned on line 29.
GroupByResume ==
  /\ call["groupBy"] = "next"
  /\ st["groupBy"] = "yield"
  /\ currentGroupKey' = KeyOf(row.v)
  /\ currentGroup' = AppendRow(GroupAfterYield(currentGroup), row.v)
  /\ row' = None
  /\ st' = [st EXCEPT !["groupBy"] = "await"]
  /\ PullUpstream("groupBy", call, nReq)
  /\ UNCHANGED <<res, pend, emitted>>
  /\ UNCHANGED <<srcVars, mVars, dVars>>
  /\ UNCHANGED hVars
  /\ UNCHANGED iVars

\* A groupBy without lines 36-38: the open group is dropped at the end.
GroupByOnEnd_DropLast ==
  /\ st["groupBy"] = "await"
  /\ res["rows"].t = "done"
  /\ call' = [call EXCEPT !["groupBy"] = "none"]
  /\ res' = [res EXCEPT !["rows"] = None, !["groupBy"] = Done]
  /\ st' = [st EXCEPT !["groupBy"] = "done"]
  /\ fin' = [fin EXCEPT !["groupBy"] = Done]
  /\ UNCHANGED <<pend, nReq, raised, currentGroupKey, currentGroup, row, emitted>>
  /\ UNCHANGED <<srcVars, mVars, dVars>>
  /\ UNCHANGED iVars

\* rows is exhausted: lines 36-38.
GroupByOnEnd ==
  /\ st["groupBy"] = "await"
  /\ res["rows"].t = "done"
  /\ call' = [call EXCEPT !["groupBy"] = "none"]
  /\ IF Len(currentGroup) > 0
       THEN /\ res' = [res EXCEPT !["rows"] = None,
                                  !["groupBy"] = Value(currentGroup)]
            /\ st' = [st EXCEPT !["groupBy"] = "yieldLast"]
            /\ emitted' = Append(emitted, currentGroup)
       ELSE /\ res' = [res EXCEPT !["rows"] = None, !["groupBy"] = Done]
            /\ st' = [st EXCEPT !["groupBy"] = "done"]
            /\ UNCHANGED emitted
  /\ UNCHANGED <<pend, nReq, currentGroupKey, currentGroup, row>>
  /\ UNCHANGED <<srcVars, mVars, dVars>>
  /\ fin' = [fin EXCEPT !["groupBy"] = IF Len(currentGroup) > 0 THEN @ ELSE Done]
  /\ UNCHANGED raised
  /\ UNCHANGED iVars

\* next() or return() after the yield of line 37: the generator completes
\* (line 39) and its frame is dropped; rows, already exhausted, is not
\* touched.
GroupByFinish ==
  /\ call["groupBy"] \in {"next", "return"}
  /\ st["groupBy"] = "yieldLast"
  /\ st' = [st EXCEPT !["groupBy"] = "done"]
  /\ res' = [res EXCEPT !["groupBy"] = Done]
  /\ call' = [call EXCEPT !["groupBy"] = "none"]
  /\ currentGroup' = <<>>
  /\ UNCHANGED <<pend, nReq, currentGroupKey, row, emitted>>
  /\ UNCHANGED <<srcVars, mVars, dVars>>
  /\ fin' = [fin EXCEPT !["groupBy"] = IF call["groupBy"] = "next" THEN Done ELSE Returned]
  /\ UNCHANGED raised
  /\ UNCHANGED iVars

\* A groupBy that flushes its open group when rows raises.
GroupByOnThrow_Flush ==
  /\ st["groupBy"] = "await"
  /\ res["rows"].t = "throw"
  /\ st' = [st EXCEPT !["groupBy"] = "yieldLast"]
  /\ res' = [res EXCEPT !["rows"] = None, !["groupBy"] = Value(currentGroup)]
  /\ call' = [call EXCEPT !["groupBy"] = "none"]
  /\ emitted' = Append(emitted, currentGroup)
  /\ UNCHANGED <<pend, nReq, currentGroupKey, currentGroup, row>>
  /\ UNCHANGED <<srcVars, mVars, dVars, hVars>>
  /\ UNCHANGED iVars

\* rows raises: the error leaves the for await of line 26 and the generator.
GroupByOnThrow ==
  /\ st["groupBy"] = "await"
  /\ res["rows"].t = "throw"
  /\ st' = [st EXCEPT !["groupBy"] = "done"]
  /\ res' = [res EXCEPT !["rows"] = None, !["groupBy"] = Throw(res["rows"].e)]
  /\ call' = [call EXCEPT !["groupBy"] = "none"]
  /\ currentGroup' = <<>>
  /\ UNCHANGED <<pend, nReq, currentGroupKey, row, emitted>>
  /\ UNCHANGED <<srcVars, mVars, dVars>>
  /\ fin' = [fin EXCEPT !["groupBy"] = Throw(res["rows"].e)]
  /\ UNCHANGED raised
  /\ UNCHANGED iVars

\* A groupBy that completes on return() without closing rows.
GroupByReturn_NoClose ==
  /\ call["groupBy"] = "return"
  /\ st["groupBy"] = "yield"
  /\ st' = [st EXCEPT !["groupBy"] = "done"]
  /\ res' = [res EXCEPT !["groupBy"] = Done]
  /\ call' = [call EXCEPT !["groupBy"] = "none"]
  /\ fin' = [fin EXCEPT !["groupBy"] = Returned]
  /\ currentGroup' = <<>>
  /\ row' = None
  /\ UNCHANGED <<pend, nReq, raised, currentGroupKey, emitted>>
  /\ UNCHANGED <<srcVars, mVars, dVars>>
  /\ UNCHANGED iVars

\* return() while suspended at the yield of line 30, inside the for await:
\* the loop is left and rows is closed (return()).
GroupByReturn ==
  /\ call["groupBy"] = "return"
  /\ st["groupBy"] = "yield"
  /\ st' = [st EXCEPT !["groupBy"] = "closing"]
  /\ call' = [call EXCEPT !["rows"] = "return"]
  /\ UNCHANGED <<res, pend, nReq>>
  /\ UNCHANGED <<srcVars, gVars, mVars, dVars>>
  /\ UNCHANGED hVars
  /\ UNCHANGED iVars

\* rows is closed: the generator completes, with the pending error if the
\* loop was left by an exception.
GroupByClosed ==
  /\ st["groupBy"] \in {"closing", "aborting"}
  /\ res["rows"].t = "done"
  /\ st' = [st EXCEPT !["groupBy"] = "done"]
  /\ res' = [res EXCEPT !["rows"] = None,
                        !["groupBy"] = IF st["groupBy"] = "aborting"
                                         THEN Throw(pend["groupBy"]) ELSE Done]
  /\ call' = [call EXCEPT !["groupBy"] = "none"]
  /\ currentGroup' = <<>>
  /\ row' = None
  /\ UNCHANGED <<pend, nReq, currentGroupKey, emitted>>
  /\ UNCHANGED <<srcVars, mVars, dVars>>
  /\ fin' = [fin EXCEPT !["groupBy"] = IF st["groupBy"] = "aborting"
                                         THEN Throw(pend["groupBy"]) ELSE Returned]
  /\ UNCHANGED raised
  /\ UNCHANGED iVars

GroupByStep ==
  \/ GroupByStart
  \/ GroupByOnRow
  \/ GroupByKeyRaises
  \/ GroupByResume
  \/ GroupByOnEnd
  \/ GroupByFinish
  \/ GroupByOnThrow
  \/ GroupByReturn
  \/ GroupByClosed

----------------------------------------------------------------------------
\* map, lines 41-45, for the two stages of lines 68-88

\* A map that applies f to the first element it ever took, not to row.
YieldOf_Stale(m, x) == MapF(m, IF mIn[m] = <<>> THEN x ELSE mIn[m][1])

\* Line 43: the value yielded for the element x.
YieldOf(m, x) == MapF(m, x)

\* next() on a generator suspended at its start or at the yield of line 43:
\* the await of the for await of line 42.
MapResume(m) ==
  /\ call[m] = "next"
  /\ st[m] \in {"start", "yield"}
  /\ st' = [st EXCEPT ![m] = "await"]
  /\ mRow' = [mRow EXCEPT ![m] = None]
  /\ PullUpstream(m, call, nReq)
  /\ UNCHANGED <<res, pend, mIn, mOut>>
  /\ UNCHANGED <<srcVars, gVars, dVars>>
  /\ UNCHANGED hVars
  /\ UNCHANGED iVars

\* A map that asks its upstream for the next element as soon as it has
\* yielded, before its own downstream asks.
MapOnValue_Prefetch(m) ==
  /\ st[m] = "await"
  /\ res[Upstream(m)].t = "value"
  /\ LET x == res[Upstream(m)].v IN
       /\ mRow' = [mRow EXCEPT ![m] = Value(x)]
       /\ mIn' = [mIn EXCEPT ![m] = Append(@, x)]
       /\ mOut' = [mOut EXCEPT ![m] = Append(@, MapF(m, x))]
       /\ res' = [res EXCEPT ![Upstream(m)] = None, ![m] = Value(MapF(m, x))]
  /\ PullUpstream(m, [call EXCEPT ![m] = "none"], nReq)
  /\ st' = [st EXCEPT ![m] = "yield"]
  /\ UNCHANGED pend
  /\ UNCHANGED <<srcVars, gVars, dVars, hVars>>
  /\ UNCHANGED iVars

\* Line 43, f returns: yield f(row).
MapOnValue(m) ==
  /\ st[m] = "await"
  /\ res[Upstream(m)].t = "value"
  /\ LET x == res[Upstream(m)].v IN
       /\ mRow' = [mRow EXCEPT ![m] = Value(x)]
       /\ mIn' = [mIn EXCEPT ![m] = Append(@, x)]
       /\ mOut' = [mOut EXCEPT ![m] = Append(@, YieldOf(m, x))]
       /\ res' = [res EXCEPT ![Upstream(m)] = None, ![m] = Value(YieldOf(m, x))]
  /\ call' = [call EXCEPT ![m] = "none"]
  /\ st' = [st EXCEPT ![m] = "yield"]
  /\ UNCHANGED <<pend, nReq>>
  /\ UNCHANGED <<srcVars, gVars, dVars>>
  /\ UNCHANGED hVars
  /\ UNCHANGED iVars

\* A map that swallows the exception of f and goes on with the next element.
MapOnRaise_Skip(m) ==
  /\ st[m] = "await"
  /\ res[Upstream(m)].t = "value"
  /\ mIn' = [mIn EXCEPT ![m] = Append(@, res[Upstream(m)].v)]
  /\ raised' = raised \cup {m}
  /\ res' = [res EXCEPT ![Upstream(m)] = None]
  /\ PullUpstream(m, call, nReq)
  /\ UNCHANGED <<st, pend, fin, mRow, mOut>>
  /\ UNCHANGED <<srcVars, gVars, dVars>>
  /\ UNCHANGED iVars

\* Line 43, f raises (f is a parameter of map: it may raise on any element):
\* the for await loop is left by the exception, which closes the upstream
\* (return()) before the error goes on.
MapOnRaise(m) ==
  /\ st[m] = "await"
  /\ res[Upstream(m)].t = "value"
  /\ mIn' = [mIn EXCEPT ![m] = Append(@, res[Upstream(m)].v)]
  /\ st' = [st EXCEPT ![m] = "aborting"]
  /\ pend' = [pend EXCEPT ![m] = MapError(m)]
  /\ res' = [res EXCEPT ![Upstream(m)] = None]
  /\ call' = [call EXCEPT ![Upstream(m)] = "return"]
  /\ UNCHANGED <<nReq, mRow, mOut>>
  /\ UNCHANGED <<srcVars, gVars, dVars>>
  /\ raised' = raised \cup {m}
  /\ UNCHANGED fin
  /\ UNCHANGED iVars

\* A map that ends with its upstream without answering its own caller.
MapOnDone_Silent(m) ==
  /\ st[m] = "await"
  /\ res[Upstream(m)].t = "done"
  /\ st' = [st EXCEPT ![m] = "done"]
  /\ res' = [res EXCEPT ![Upstream(m)] = None]
  /\ fin' = [fin EXCEPT ![m] = Done]
  /\ UNCHANGED <<call, pend, nReq, raised>>
  /\ UNCHANGED <<srcVars, gVars, mVars, dVars>>
  /\ UNCHANGED iVars

\* The upstream is exhausted: the loop of line 42 ends, the generator too.
MapOnDone(m) ==
  /\ st[m] = "await"
  /\ res[Upstream(m)].t = "done"
  /\ st' = [st EXCEPT ![m] = "done"]
  /\ res' = [res EXCEPT ![Upstream(m)] = None, ![m] = Done]
  /\ call' = [call EXCEPT ![m] = "none"]
  /\ UNCHANGED <<pend, nReq>>
  /\ UNCHANGED <<srcVars, gVars, mVars, dVars>>
  /\ fin' = [fin EXCEPT ![m] = Done]
  /\ UNCHANGED raised
  /\ UNCHANGED iVars

\* The upstream raises: the error leaves the for await and the generator.
MapOnThrow(m) ==
  /\ st[m] = "await"
  /\ res[Upstream(m)].t = "throw"
  /\ st' = [st EXCEPT ![m] = "done"]
  /\ res' = [res EXCEPT ![Upstream(m)] = None, ![m] = Throw(res[Upstream(m)].e)]
  /\ call' = [call EXCEPT ![m] = "none"]
  /\ UNCHANGED <<pend, nReq>>
  /\ UNCHANGED <<srcVars, gVars, mVars, dVars>>
  /\ fin' = [fin EXCEPT ![m] = Throw(res[Upstream(m)].e)]
  /\ UNCHANGED raised
  /\ UNCHANGED iVars

\* return() while suspended at the yield of line 43, inside the for await:
\* the loop is left and the upstream is closed (return()).
MapReturn(m) ==
  /\ call[m] = "return"
  /\ st[m] = "yield"
  /\ st' = [st EXCEPT ![m] = "closing"]
  /\ mRow' = [mRow EXCEPT ![m] = None]
  /\ call' = [call EXCEPT ![Upstream(m)] = "return"]
  /\ UNCHANGED <<res, pend, nReq, mIn, mOut>>
  /\ UNCHANGED <<srcVars, gVars, dVars>>
  /\ UNCHANGED hVars
  /\ UNCHANGED iVars

\* return() on a generator that never ran: it completes without executing
\* any of its body, so line 42 never obtains nor closes the upstream.
MapReturnUnstarted(m) ==
  /\ call[m] = "return"
  /\ st[m] = "start"
  /\ st' = [st EXCEPT ![m] = "done"]
  /\ res' = [res EXCEPT ![m] = Done]
  /\ call' = [call EXCEPT ![m] = "none"]
  /\ UNCHANGED <<pend, nReq>>
  /\ UNCHANGED <<srcVars, gVars, mVars, dVars>>
  /\ fin' = [fin EXCEPT ![m] = Returned]
  /\ UNCHANGED raised
  /\ UNCHANGED iVars

\* The upstream is closed: the generator completes, with the pending error
\* if the loop was left by an exception.
MapClosed(m) ==
  /\ st[m] \in {"closing", "aborting"}
  /\ res[Upstream(m)].t = "done"
  /\ st' = [st EXCEPT ![m] = "done"]
  /\ res' = [res EXCEPT ![Upstream(m)] = None,
                        ![m] = IF st[m] = "aborting" THEN Throw(pend[m]) ELSE Done]
  /\ call' = [call EXCEPT ![m] = "none"]
  /\ UNCHANGED <<pend, nReq>>
  /\ UNCHANGED <<srcVars, gVars, mVars, dVars>>
  /\ fin' = [fin EXCEPT ![m] = IF st[m] = "aborting" THEN Throw(pend[m]) ELSE Returned]
  /\ UNCHANGED raised
  /\ UNCHANGED iVars

MapStep ==
  \E m \in Maps :
    \/ MapResume(m)
    \/ MapOnValue(m)
    \/ MapOnRaise(m)
    \/ MapOnDone(m)
    \/ MapOnThrow(m)
    \/ MapReturn(m)
    \/ MapReturnUnstarted(m)
    \/ MapClosed(m)

----------------------------------------------------------------------------
\* main, lines 90-106: Readable.from(groupedReservations) piped to the file

\* Line 91, Readable.from: the sink has room, the readable asks the
\* generator for the next line.
DriverRead ==
  /\ dState = "idle"
  /\ dState' = "reading"
  /\ call' = [call EXCEPT !["serialize"] = "next"]
  /\ nReq' = [nReq EXCEPT !["serialize"] = @ + 1]
  /\ UNCHANGED <<res, st, pend, written, dErr, outcome, reported>>
  /\ UNCHANGED <<srcVars, gVars, mVars>>
  /\ UNCHANGED hVars
  /\ UNCHANGED iVars

\* Line 91: the line the generator yields is pushed and written to the file.
DriverPush ==
  /\ dState = "reading"
  /\ res["serialize"].t = "value"
  /\ written' = Append(written, res["serialize"].v)
  /\ res' = [res EXCEPT !["serialize"] = None]
  /\ dState' = "idle"
  /\ UNCHANGED <<call, st, pend, nReq, dErr, outcome, reported>>
  /\ UNCHANGED <<srcVars, gVars, mVars>>
  /\ UNCHANGED hVars
  /\ UNCHANGED iVars

\* A driver that goes on reading after the file has failed.
SinkFail_Ignore ==
  /\ dState = "reading"
  /\ res["serialize"].t = "value"
  /\ res' = [res EXCEPT !["serialize"] = None]
  /\ dErr' = SinkError
  /\ dState' = "idle"
  /\ UNCHANGED <<call, st, pend, nReq, written, outcome, reported>>
  /\ UNCHANGED <<srcVars, gVars, mVars, hVars>>
  /\ UNCHANGED iVars

\* Lines 90-91: the file fails on the line the generator yields (the write
\* stream emits an error); the line is not persisted, pipeline destroys the
\* readable and rejects with the error of the file.
SinkFail ==
  /\ dState = "reading"
  /\ res["serialize"].t = "value"
  /\ res' = [res EXCEPT !["serialize"] = None]
  /\ dErr' = SinkError
  /\ dState' = "errored"
  /\ UNCHANGED <<call, st, pend, nReq, written, outcome, reported>>
  /\ UNCHANGED <<srcVars, gVars, mVars>>
  /\ UNCHANGED hVars
  /\ UNCHANGED iVars

\* Line 91: the generator is exhausted, the readable and the file end.
DriverEnd ==
  /\ dState = "reading"
  /\ res["serialize"].t = "done"
  /\ res' = [res EXCEPT !["serialize"] = None]
  /\ dState' = "ended"
  /\ UNCHANGED <<call, st, pend, nReq, written, dErr, outcome, reported>>
  /\ UNCHANGED <<srcVars, gVars, mVars>>
  /\ UNCHANGED hVars
  /\ UNCHANGED iVars

\* A driver that takes an error of the generator for its end.
DriverError_Swallow ==
  /\ dState = "reading"
  /\ res["serialize"].t = "throw"
  /\ res' = [res EXCEPT !["serialize"] = None]
  /\ dState' = "ended"
  /\ UNCHANGED <<call, st, pend, nReq, written, dErr, outcome, reported>>
  /\ UNCHANGED <<srcVars, gVars, mVars, hVars>>
  /\ UNCHANGED iVars

\* Line 91: the generator raises, the readable is destroyed with the error
\* and pipeline rejects with it.
DriverError ==
  /\ dState = "reading"
  /\ res["serialize"].t = "throw"
  /\ dErr' = res["serialize"].e
  /\ res' = [res EXCEPT !["serialize"] = None]
  /\ dState' = "errored"
  /\ UNCHANGED <<call, st, pend, nReq, written, outcome, reported>>
  /\ UNCHANGED <<srcVars, gVars, mVars>>
  /\ UNCHANGED hVars
  /\ UNCHANGED iVars

\* The consumer stops iterating between two pulls: return() on the final
\* generator.
ConsumerStop ==
  /\ dState = "idle"
  /\ dState' = "stopping"
  /\ call' = [call EXCEPT !["serialize"] = "return"]
  /\ UNCHANGED <<res, st, pend, nReq, written, dErr, outcome, reported>>
  /\ UNCHANGED <<srcVars, gVars, mVars>>
  /\ UNCHANGED hVars
  /\ UNCHANGED iVars

\* The return() of the consumer is answered.
ConsumerStopped ==
  /\ dState = "stopping"
  /\ res["serialize"].t = "done"
  /\ res' = [res EXCEPT !["serialize"] = None]
  /\ dState' = "stopped"
  /\ UNCHANGED <<call, st, pend, nReq, written, dErr, outcome, reported>>
  /\ UNCHANGED <<srcVars, gVars, mVars>>
  /\ UNCHANGED hVars
  /\ UNCHANGED iVars

\* Lines 96-102: main() resolved.
MainThen ==
  /\ dState = "ended"
  /\ outcome = "running"
  /\ outcome' = "success"
  /\ UNCHANGED <<call, res, st, pend, nReq, dState, written, dErr, reported>>
  /\ UNCHANGED <<srcVars, gVars, mVars>>
  /\ UNCHANGED hVars
  /\ UNCHANGED iVars

\* Lines 103-106: main() rejected.
MainCatch ==
  /\ dState = "errored"
  /\ outcome = "running"
  /\ outcome' = "failure"
  /\ reported' = dErr
  /\ UNCHANGED <<call, res, st, pend, nReq, dState, written, dErr>>
  /\ UNCHANGED <<srcVars, gVars, mVars>>
  /\ UNCHANGED hVars
  /\ UNCHANGED iVars

DriverStep ==
  \/ DriverRead
  \/ DriverPush
  \/ SinkFail
  \/ DriverEnd
  \/ DriverError
  \/ ConsumerStop
  \/ ConsumerStopped
  \/ MainThen
  \/ MainCatch

Next ==
  \/ SourceNext
  \/ SourceReturn
  \/ GroupByStep
  \/ MapStep
  \/ DriverStep

Spec == Init /\ [][Next]_vars

\* The run is over: nothing is left to do.
Terminated == ~ENABLED Next

\* The pipeline as main() runs it (lines 90-91): the file keeps asking for
\* lines, nobody stops the iteration from outside.
PipelineNext ==
  \/ SourceNext
  \/ SourceReturn
  \/ GroupByStep
  \/ \E m \in Maps :
       \/ MapResume(m)
       \/ MapOnValue(m)
       \/ MapOnRaise(m)
       \/ MapOnDone(m)
       \/ MapOnThrow(m)
       \/ MapReturn(m)
       \/ MapClosed(m)
  \/ DriverRead
  \/ DriverPush
  \/ SinkFail
  \/ DriverEnd
  \/ DriverError
  \/ MainThen
  \/ MainCatch

\* The event loop of Node runs every callback and promise reaction that is
\* ready: a step that stays possible is eventually taken.
PipelineSpec == Init /\ [][PipelineNext]_vars /\ WF_vars(PipelineNext)

----------------------------------------------------------------------------
\* Two pipelines side by side: each call of groupBy (line 23) has its own
\* frame, with its own currentGroupKey, currentGroup and row.

\* The rows of the two sources.
InstanceRows == {MkRow(rid, "s1", "a") : rid \in ReservationIds}
Inputs == UNION {[1..n -> InstanceRows] : n \in 0..MaxLen}

\* The frame of a groupBy that has not run yet (lines 24-25).
NewFrame ==
  [currentGroupKey |-> Undefined, currentGroup |-> <<>>, row |-> None,
   st |-> "start", pulled |-> 0, emitted |-> <<>>]

\* Lines 26-38: what a groupBy with frame g, over the source rows, does from
\* one suspension point (await of line 26, yield of line 30 or 37) to the
\* next.
GroupByAdvance(g, rows) ==
  CASE g.st \in {"start", "await"} ->
         IF g.pulled < Len(rows)
           THEN LET r == rows[g.pulled + 1] IN
                IF ~NoKeyYet(g.currentGroupKey)
                     /\ KeyChanged(g.currentGroupKey, KeyOf(r))
                  THEN [g EXCEPT !.st = "yield", !.row = Value(r),
                                 !.pulled = @ + 1,
                                 !.emitted = Append(@, g.currentGroup)]
                  ELSE [g EXCEPT !.st = "await",
                                 !.currentGroupKey =
                                    IF NoKeyYet(@) THEN KeyOf(r) ELSE @,
                                 !.currentGroup = AppendRow(@, r),
                                 !.pulled = @ + 1]
           ELSE IF Len(g.currentGroup) > 0
                  THEN [g EXCEPT !.st = "yieldLast",
                                 !.emitted = Append(@, g.currentGroup)]
                  ELSE [g EXCEPT !.st = "done"]
    [] g.st = "yield" ->
         [g EXCEPT !.currentGroupKey = KeyOf(g.row.v),
                   !.currentGroup = AppendRow(GroupAfterYield(@), g.row.v),
                   !.row = None, !.st = "await"]
    [] g.st = "yieldLast" -> [g EXCEPT !.st = "done"]

\* A groupBy whose currentGroup is one variable of the module, shared by
\* every call.
GroupSlot_Shared(i) == 1

\* Line 25: currentGroup is a local of the call, one per groupBy.
GroupSlot(i) == i

\* The frame groupBy i works on.
FrameOf(i) ==
  [currentGroupKey |-> iCurrentGroupKey[i],
   currentGroup |-> iCurrentGroup[GroupSlot(i)], row |-> iRow[i], st |-> iSt[i],
   pulled |-> iPulled[i], emitted |-> iEmitted[i]]

\* Pipeline i runs from one suspension point of its groupBy to the next; a
\* group it yields goes through the two map stages (lines 71-87).
InstanceStep(i) ==
  /\ iSt[i] # "done"
  /\ LET g == GroupByAdvance(FrameOf(i), iRows[i]) IN
       /\ iCurrentGroupKey' = [iCurrentGroupKey EXCEPT ![i] = g.currentGroupKey]
       /\ iCurrentGroup' =
            [iCurrentGroup EXCEPT ![GroupSlot(i)] = g.currentGroup]
       /\ iRow' = [iRow EXCEPT ![i] = g.row]
       /\ iSt' = [iSt EXCEPT ![i] = g.st]
       /\ iPulled' = [iPulled EXCEPT ![i] = g.pulled]
       /\ iEmitted' = [iEmitted EXCEPT ![i] = g.emitted]
       /\ iLines' =
            [iLines EXCEPT ![i] =
               IF Len(g.emitted) > Len(iEmitted[i])
                 THEN Append(@, MapF("serialize",
                                     MapF("build", g.emitted[Len(g.emitted)])))
                 ELSE @]
  /\ UNCHANGED iRows
  /\ UNCHANGED pVars

TwoInit == InitPipeline /\ \E rs \in [Instances -> Inputs] : InitInstances(rs)

\* The steps of the two pipelines, interleaved in any order.
TwoNext == \E i \in Instances : InstanceStep(i)

TwoSpec == TwoInit /\ [][TwoNext]_vars

\* A groupBy run alone over rows, from frame g to its end.
RECURSIVE RunAlone(_, _)
RunAlone(g, rows) ==
  IF g.st = "done" THEN g ELSE RunAlone(GroupByAdvance(g, rows), rows)

\* The groups a groupBy run alone emits over rows.
AloneGroups(rows) == RunAlone(NewFrame, rows).emitted

----------------------------------------------------------------------------
\* Properties

IsPrefix(s, t) == Len(s) <= Len(t) /\ SubSeq(t, 1, Len(s)) = s

KeysOf(rows) == [i \in 1..Len(rows) |-> KeyOf(rows[i])]

\* The number of maximal runs of equal consecutive values of ks.
NumRuns(ks) == Cardinality({i \in 1..Len(ks) : i = 1 \/ ks[i] # ks[i - 1]})

\* groupBy has seen the end of rows and has yielded its last group.
GroupByExhausted ==
  srcState = "ended" /\ st["groupBy"] \in {"yieldLast", "done"}

\* C1: once groupBy has consumed the whole input, the concatenation of the
\* groups it has emitted, in emission order, is the input itself, whatever
\* the keys are (sorted or not); before that, it is a prefix of the input.
C1_ConcatIsInput ==
  /\ IsPrefix(Flatten(emitted), pulled)
  /\ GroupByExhausted => Flatten(emitted) = pulled

\* An unsorted input of three rows, keys 1, 2, 1, has been grouped.
C1_Witness ==
  /\ GroupByExhausted
  /\ KeysOf(pulled) = <<"1", "2", "1">>
  /\ Len(emitted) = 3

\* C2: once groupBy has consumed the whole input, the number of groups it
\* has emitted is the number of maximal runs of equal consecutive keys of
\* the input, for every key function.
C2_GroupsAreRuns ==
  GroupByExhausted => Len(emitted) = NumRuns(KeysOf(pulled))

\* The elements the upstream of map stage m has yielded.
UpstreamOut(m) == IF m = "build" THEN emitted ELSE mOut["build"]

\* C3: the i-th element a map stage emits is f of the i-th element it took,
\* and a stage that reached the end of an upstream of N elements (f never
\* raised) has taken and emitted exactly those N elements.
C3_MapPointwise ==
  \A m \in Maps :
    /\ Len(mOut[m]) <= Len(mIn[m])
    /\ \A i \in 1..Len(mOut[m]) : mOut[m][i] = MapF(m, mIn[m][i])
    /\ fin[m] = Done =>
         /\ mIn[m] = UpstreamOut(m)
         /\ Len(mOut[m]) = Len(UpstreamOut(m))

\* Both map stages have reached the end of a sequence of three elements.
C3_Witness ==
  /\ \A m \in Maps : fin[m] = Done /\ Len(mOut[m]) = 3
  /\ mOut["build"][1] # mOut["build"][2]

Front(s) == SubSeq(s, 1, Len(s) - 1)

\* rows has raised while producing the next row.
SourceFailed == srcState = "errored"

C4_State ==
  SourceFailed =>
    /\ IsPrefix(Flatten(emitted), pulled)
    /\ pulled # <<>> => Len(Flatten(emitted)) < Len(pulled)
    /\ Len(written) = Len(emitted)
    /\ \A m \in Maps : Len(mOut[m]) = Len(emitted)
    /\ \A g \in Generators :
         /\ fin[g].t \in {"none", "throw"}
         /\ fin[g].t = "throw" => fin[g].e = SourceError
    /\ dErr \in {"none", SourceError}
    /\ outcome # "success"
    /\ outcome = "failure" => reported = SourceError
    /\ Terminated =>
         /\ outcome = "failure"
         /\ \A g \in Generators : fin[g] = Throw(SourceError)

C4_Step ==
  SourceFailed =>
    /\ pulled' = pulled
    /\ emitted' = emitted
    /\ mOut' = mOut
    /\ written' = written
    /\ nReq' = nReq

\* C4: when rows raises, groupBy and both map stages complete with that very
\* error and the driver reports it; the open group is not among the emitted
\* groups, and from the failure on no row is pulled, no next() is issued, and
\* no group, Reservation or line is produced.
C4_SourceFailure == []C4_State /\ [][C4_Step]_vars

\* rows has raised after two rows of one key, and the run is over.
C4_Witness ==
  /\ SourceFailed
  /\ Len(pulled) = 2
  /\ emitted = <<>>
  /\ outcome = "failure"

\* The error with which generator g fails when its function raises.
ErrorOf(g) == IF g = "groupBy" THEN KeyError ELSE MapError(g)

C5_State ==
  /\ \A m \in Maps \cap raised :
       /\ Len(mIn[m]) = Len(mOut[m]) + 1
       /\ \A i \in 1..Len(mOut[m]) : mOut[m][i] = MapF(m, mIn[m][i])
  /\ "groupBy" \in raised =>
       /\ KeyRaises(pulled[Len(pulled)])
       /\ IsPrefix(Flatten(emitted), Front(pulled))
       /\ st["groupBy"] = "aborting" =>
            Flatten(emitted) \o currentGroup = Front(pulled)
  /\ \A g \in raised :
       /\ fin[g].t \in {"none", "throw"}
       /\ fin[g].t = "throw" => fin[g].e = ErrorOf(g)
       /\ Terminated => fin[g] = Throw(ErrorOf(g))

C5_Step ==
  /\ \A m \in Maps \cap raised :
       /\ mIn[m]' = mIn[m]
       /\ mOut[m]' = mOut[m]
       /\ nReq[Upstream(m)]' = nReq[Upstream(m)]
  /\ "groupBy" \in raised =>
       /\ pulled' = pulled
       /\ emitted' = emitted
       /\ nReq["rows"]' = nReq["rows"]

\* C5: when the function of a stage raises on an element, the stage has
\* yielded f of each element before it (groupBy: the groups closed before
\* it, the open group being abandoned) and nothing for it; from then on the
\* stage takes no element, issues no next() on its upstream and yields
\* nothing, and it completes with the error of its function.
C5_TransformFailure == []C5_State /\ [][C5_Step]_vars

\* serialize has raised on its second Reservation and has failed.
C5_Witness ==
  /\ "serialize" \in raised
  /\ Len(mIn["serialize"]) = 2
  /\ fin["serialize"] = Throw(SerializeError)

\* The key function has raised on the third row, after a group was emitted.
C5_WitnessKey ==
  /\ "groupBy" \in raised
  /\ Len(pulled) = 3
  /\ Len(emitted) = 1
  /\ fin["groupBy"] = Throw(KeyError)

\* The group-to-Reservation transform has raised on the second group.
BuildRaisedOnSecond == "build" \in raised /\ Len(mIn["build"]) = 2

\* C6: when the group-to-Reservation transform raises on the second group,
\* exactly one line, the line of the first group, has been handed to the
\* sink; the run never ends in success and, when it is over, has ended in
\* the failure outcome with that error.
C6_SecondGroupFails ==
  BuildRaisedOnSecond =>
    /\ written = <<SerializeLine(BuildReservation(emitted[1]))>>
    /\ outcome # "success"
    /\ outcome = "failure" => reported = BuildError
    /\ Terminated => outcome = "failure"

\* The transform has raised on the second group and main() has rejected.
C6_Witness == BuildRaisedOnSecond /\ outcome = "failure"

NonNullRows(group) ==
  SelectSeq(group, LAMBDA r : r.reservation_line_id # Null)

\* C7: every Reservation built from a group has the id and the store of the
\* group's first row, and its lines are, in order, the lines of exactly the
\* rows of the group whose reservation_line_id is not null.
C7_ChildrenAreNonNullRows ==
  \A i \in 1..Len(mOut["build"]) :
    LET group == mIn["build"][i]
        r == mOut["build"][i]
    IN /\ r.id = group[1].reservation_id
       /\ r.storeId = group[1].store_id
       /\ r.lines = [k \in 1..Len(NonNullRows(group)) |-> LineOf(NonNullRows(group)[k])]

\* C8: a next() is pending on a stage only while one is pending on the stage
\* after it (on the final generator: only while the driver reads for the
\* sink); no stage has yielded more elements than were asked of it; and
\* before the first request of the driver nothing was pulled or produced.
C8_DemandDriven ==
  /\ \A g \in Generators : call[Upstream(g)] = "next" => call[g] = "next"
  /\ call["serialize"] = "next" => dState = "reading"
  /\ Len(pulled) <= nReq["rows"]
  /\ Len(emitted) <= nReq["groupBy"]
  /\ \A m \in Maps : Len(mOut[m]) <= nReq[m]
  /\ \A g \in Generators : nReq[Upstream(g)] > 0 => nReq[g] > 0
  /\ nReq["serialize"] <= Len(written) + 1
  /\ nReq["serialize"] = 0 =>
       pulled = <<>> /\ emitted = <<>> /\ \A m \in Maps : mOut[m] = <<>>

\* rows is being pulled for the second line, which the driver has asked for.
C8_Witness ==
  /\ call["rows"] = "next"
  /\ Len(written) = 1
  /\ nReq["serialize"] = 2
  /\ Len(pulled) = 2

\* The rows groupBy references: currentGroup and the loop variable row.
HeldByGroupBy ==
  currentGroup \o (IF row.t = "value" THEN <<row.v>> ELSE <<>>)

\* groupBy is suspended in a yield: the group it yields is still currentGroup.
InYield == st["groupBy"] \in {"yield", "yieldLast", "closing"}

\* No stage queues elements: between two neighbouring stages at most one
\* element is produced and not yet taken, and a map stage holds at most the
\* one element it last took.
NoQueues ==
  /\ Len(emitted) <= Len(mIn["build"]) + 1
  /\ Len(mOut["build"]) <= Len(mIn["serialize"]) + 1
  /\ Len(mOut["serialize"]) <= Len(written) + 1
  /\ \A m \in Maps :
       mRow[m].t = "value" => mRow[m].v = mIn[m][Len(mIn[m])]

\* The row rows has produced and groupBy has not taken yet.
InFlight == IF res["rows"].t = "value" THEN <<res["rows"].v>> ELSE <<>>

\* The rows groupBy holds are the rows pulled so far less those of the groups
\* in released and the one row in flight (a row on which f raised is not
\* kept); a completed groupBy holds nothing.
HoldsAllBut(released) ==
  CASE st["groupBy"] = "done" -> HeldByGroupBy = <<>>
    [] st["groupBy"] = "aborting" ->
         Flatten(released) \o HeldByGroupBy = Front(pulled)
    [] OTHER -> Flatten(released) \o HeldByGroupBy \o InFlight = pulled

\* C9 as stated, with "already emitted" read in the way most favourable to
\* it: no stage queues elements, and groupBy holds no row of a group whose
\* line has already been handed to the sink.
C9_EmittedNotHeld == NoQueues /\ HoldsAllBut(SubSeq(emitted, 1, Len(written)))

\* C9, amended: no stage queues elements, and groupBy holds no row of a group
\* whose yield has completed; while it is suspended in the yield of a group,
\* currentGroup still is that group (beside the one row read ahead), until
\* the next request resumes it.
C9_BoundedHolding ==
  /\ NoQueues
  /\ HoldsAllBut(IF InYield THEN Front(emitted) ELSE emitted)
  /\ InYield => currentGroup = emitted[Len(emitted)]

\* groupBy has been resumed after its first group and holds only the rows of
\* the second.
C9_Witness ==
  /\ st["groupBy"] = "await"
  /\ Len(emitted) = 1
  /\ Len(pulled) = 3
  /\ Len(currentGroup) = 2
  /\ Len(written) = 1

\* The consumer has called return() on the final generator.
Stopping == dState \in {"stopping", "stopped"}

C10_Step ==
  Stopping =>
    /\ nReq' = nReq
    /\ pulled' = pulled
    /\ emitted' = emitted
    /\ mOut' = mOut
    /\ written' = written

C10_State ==
  /\ dState = "stopping" => ENABLED Next
  /\ (dState = "stopped" /\ nReq["serialize"] > 0) =>
       /\ srcState \in {"destroyed", "ended"}
       /\ \A g \in Generators : st[g] = "done" /\ fin[g] = Returned
  /\ (dState = "stopped" /\ nReq["serialize"] = 0) =>
       /\ srcState = "open"
       /\ fin["serialize"] = Returned
       /\ \A g \in Generators \ {"serialize"} : st[g] = "start"

SinkFailed == dErr = SinkError

C11_State ==
  SinkFailed =>
    /\ dState = "errored"
    /\ written = Front(mOut["serialize"])
    /\ \A s \in Stages : call[s] = "none"
    /\ outcome # "success"
    /\ outcome = "failure" => reported = SinkError
    /\ Terminated => outcome = "failure"

C11_Step ==
  /\ IsPrefix(written, written')
  /\ SinkFailed =>
       /\ written' = written
       /\ nReq' = nReq
       /\ pulled' = pulled
       /\ emitted' = emitted
       /\ mOut' = mOut

\* C11: when the file fails on a line, the driver stops and main() ends in
\* the failure outcome with the error of the file, never in success; the
\* lines written before the failure stay written (written only ever grows),
\* and from the failure on no line is written, no next() is issued, no row
\* is pulled and no group, Reservation or line is yielded.
C11_SinkFailure == []C11_State /\ [][C11_Step]_vars

\* The file has failed on the second line, the first one stays written, and
\* main() has rejected.
C11_Witness ==
  /\ SinkFailed
  /\ Len(written) = 1
  /\ Len(mOut["serialize"]) = 2
  /\ outcome = "failure"

\* The number of line separators among the tokens of a line.
Separators(line) == Cardinality({k \in 1..Len(line) : line[k] = "\n"})

\* C12: the i-th line handed to the file is the encoding of the Reservation
\* built from the i-th emitted group, followed by one line separator, the
\* only one of the line; a run that ends in success has written one line per
\* emitted group, and none at all when the input was empty.
C12_LinePerGroup ==
  /\ Len(written) <= Len(emitted)
  /\ \A i \in 1..Len(written) :
       /\ written[i] = Stringify(BuildReservation(emitted[i])) \o <<"\n">>
       /\ Separators(written[i]) = 1
  /\ outcome = "success" =>
       /\ Len(written) = Len(emitted)
       /\ pulled = <<>> => emitted = <<>> /\ written = <<>>

\* A run over three rows of two reservations has ended in success with two
\* different lines.
C12_Witness ==
  /\ outcome = "success"
  /\ Len(pulled) = 3
  /\ Len(written) = 2
  /\ written[1] # written[2]

\* A run over the empty input has ended in success.
C12_WitnessEmpty == outcome = "success" /\ pulled = <<>>

\* The rows are those of the query of lines 59-66: every reservation_id is
\* a real id, and the rows are ordered by it.
SortedById(rows) ==
  /\ \A i \in 1..Len(rows) : rows[i].reservation_id \in {"1", "2"}
  /\ \A i \in 2..Len(rows) :
       rows[i - 1].reservation_id = "2" => rows[i].reservation_id = "2"

\* The pipeline has run to its end over an input ordered by reservation id.
RanOverSorted == fin["build"] = Done /\ SortedById(pulled)

\* C13 as stated: over every input ordered by reservation id, the
\* Reservations of the pipeline of index.ts are those of the README's
\* groupAndTransformRowsToReservations, with the same lines.
C13_SameAsReadme ==
  RanOverSorted => mOut["build"] = groupAndTransformRowsToReservations(pulled)

\* C13, amended: over every input ordered by reservation id, the pipeline of
\* index.ts yields as many Reservations as the README's function, with the
\* same id and storeId, and with the same lines unless the first row of the
\* reservation has a null reservation_line_id: then index.ts gives no lines,
\* where the README's function gives one line per row.
C13_SameButNullFirst ==
  RanOverSorted =>
    LET readme == groupAndTransformRowsToReservations(pulled)
        out == mOut["build"]
    IN /\ Len(out) = Len(readme)
       /\ \A i \in 1..Len(out) :
            /\ out[i].id = readme[i].id
            /\ out[i].storeId = readme[i].storeId
            /\ readme[i].lines # <<>>
            /\ out[i].lines =
                 IF readme[i].lines[1].id = Null THEN <<>> ELSE readme[i].lines

\* The pipeline has run over a reservation whose only row has a null
\* reservation_line_id, followed by a reservation of two lines.
C13_Witness ==
  /\ RanOverSorted
  /\ Len(pulled) = 3
  /\ Len(mOut["build"]) = 2
  /\ pulled[1].reservation_line_id = Null
  /\ mOut["build"][1].lines = <<>>
  /\ Len(mOut["build"][2].lines) = 2

\* C14: every group groupBy has emitted is non-empty, all its rows have the
\* same key, and the groups are, in order, consecutive stretches of the
\* input, for every key function, one that returns undefined included.
C14_GroupsShareKey ==
  /\ IsPrefix(Flatten(emitted), pulled)
  /\ \A i \in 1..Len(emitted) :
       /\ emitted[i] # <<>>
       /\ \A j \in 1..Len(emitted[i]) :
            KeyOf(emitted[i][j]) = KeyOf(emitted[i][1])

Last(s) == s[Len(s)]

C15_State ==
  /\ (pulled # <<>> /\ Len(Flatten(emitted)) = Len(pulled)) =>
       /\ srcState = "ended"
       /\ st["groupBy"] \in {"yieldLast", "done"}
  /\ (GroupByExhausted /\ pulled # <<>>) =>
       /\ emitted # <<>>
       /\ Last(Last(emitted)) = Last(pulled)
       /\ Len(pulled) = 1 => emitted = <<pulled>>
  /\ st["groupBy"] = "yieldLast" => res["groupBy"].t \in {"value", "none"}
  /\ (GroupByExhausted /\ st["groupBy"] = "done") =>
       fin["groupBy"] \in {Done, Returned}

C15_Step ==
  st["groupBy"] \in {"yieldLast", "done"} =>
    /\ emitted' = emitted
    /\ st'["groupBy"] \in {st["groupBy"], "done"}
    /\ (st["groupBy"] = "yieldLast" /\ st'["groupBy"] = "done") =>
         res'["groupBy"] = Done

\* C15: over a non-empty input that ends, the group that holds the last row
\* is emitted only once rows has reported its end, and it ends with that
\* row; when asked again, groupBy reports the end of the sequence, and it
\* emits nothing after that group. An input of one row gives exactly one
\* group, of that row.
C15_LastGroupAtEnd == []C15_State /\ [][C15_Step]_vars

\* groupBy has emitted the second and last group of an input of three rows
\* and has reported the end of the sequence.
C15_Witness ==
  /\ srcState = "ended"
  /\ fin["groupBy"] = Done
  /\ Len(pulled) = 3
  /\ Len(emitted) = 2
  /\ Last(emitted[2]) = pulled[3]

\* An input of one row has given one group.
C15_WitnessSingle ==
  /\ fin["groupBy"] = Done
  /\ Len(pulled) = 1
  /\ emitted = <<pulled>>

\* groupBy is suspended in the yield of line 30, the yield of a group that
\* the row read after it has closed.
AtYield == st["groupBy"] = "yield"

C16_State ==
  /\ AtYield =>
       /\ row.t = "value"
       /\ pulled = Flatten(emitted) \o <<row.v>>
       /\ currentGroup = Last(emitted)
       /\ KeyOf(row.v) # currentGroupKey
       /\ KeyOf(row.v) # KeyOf(Last(currentGroup))
       /\ call["rows"] = "none" /\ res["rows"] = None
  /\ st["groupBy"] = "yieldLast" => srcState = "ended"
  /\ (st["groupBy"] = "await" /\ emitted # <<>> /\ currentGroup # <<>>) =>
       currentGroup[1] = pulled[Len(Flatten(emitted)) + 1]

C16_Step ==
  /\ emitted' # emitted =>
       /\ res["rows"].t \in {"value", "done"}
       /\ emitted' = Append(emitted, currentGroup)
       /\ emitted # <<>> =>
            Last(emitted')[1] = pulled[Len(Flatten(emitted)) + 1]
       /\ res["rows"].t = "value" =>
            /\ st'["groupBy"] = "yield"
            /\ row' = res["rows"]
            /\ pulled' = pulled
  /\ (AtYield /\ st'["groupBy"] = "yield") => row' = row /\ pulled' = pulled
  /\ (AtYield /\ st'["groupBy"] = "await") => currentGroup' = <<row.v>>

\* C16: when groupBy emits a group that a row has closed, it has pulled
\* exactly the rows of the groups emitted so far and that one row, whose key
\* differs from the key groupBy holds for the emitted group (the key of the
\* group's last row); the row is kept, with nothing more pulled, while
\* groupBy is suspended in the yield, and is the first row of the next group
\* groupBy builds and emits. A group is emitted only when rows has answered:
\* with the row that closes it, or with its end.
C16_OneRowLookahead == []C16_State /\ [][C16_Step]_vars

\* groupBy has emitted its second group, closed by the third row, which it
\* holds; the first row of that group is the row that closed the first.
C16_Witness ==
  /\ AtYield
  /\ Len(pulled) = 3
  /\ Len(emitted) = 2
  /\ emitted[2] = <<pulled[2]>>
  /\ row = Value(pulled[3])

C17_State ==
  /\ outcome = "running" => ENABLED PipelineNext
  /\ outcome # "running" => ~ENABLED PipelineNext
  /\ outcome = "success" =>
       /\ srcState = "ended"
       /\ dErr = "none" /\ reported = "none"
       /\ Flatten(emitted) = pulled
       /\ Len(written) = Len(emitted)
       /\ \A i \in 1..Len(written) :
            written[i] = SerializeLine(BuildReservation(emitted[i]))
  /\ outcome = "failure" =>
       /\ reported = dErr
       /\ reported \in {SourceError, KeyError, BuildError, SerializeError, SinkError}

C17_Step == outcome # "running" => outcome' = outcome

\* C17: run by main() over a source that ends or fails, the pipeline always
\* has a step to take until main() has settled, and it does settle: in
\* success, every row pulled being in exactly one emitted group and every
\* emitted group in exactly one written line, or in failure, with the error
\* reported; once settled the outcome never changes and nothing runs.
C17_Terminates ==
  /\ []C17_State
  /\ [][C17_Step]_vars
  /\ <>[](outcome \in {"success", "failure"})

\* A run over three rows has ended in success with two lines.
C17_Witness ==
  /\ outcome = "success"
  /\ Len(pulled) = 3
  /\ Len(written) = 2
  /\ srcState = "ended"

\* A run whose source failed after two rows has ended in failure.
C17_WitnessFailure ==
  /\ outcome = "failure"
  /\ reported = SourceError
  /\ Len(pulled) = 2

\* The lines a pipeline run alone yields for the groups gs.
AloneLines(gs) == [k \in 1..Len(gs) |-> SerializeLine(BuildReservation(gs[k]))]

\* C18: whatever the interleaving of the steps of two pipelines, the groups
\* each has emitted so far are the first groups its groupBy emits when run
\* alone over the same source, all of them once it is done, and its lines
\* are the lines of those groups.
C18_NoInterference ==
  \A i \in Instances :
    /\ IsPrefix(iEmitted[i], AloneGroups(iRows[i]))
    /\ iSt[i] = "done" => iEmitted[i] = AloneGroups(iRows[i])
    /\ iLines[i] = AloneLines(iEmitted[i])

\* Both pipelines are in the middle of their run, each suspended in a yield
\* with a different key at hand, over different sources.
C18_Witness ==
  /\ iSt[1] = "yield" /\ iSt[2] = "yield"
  /\ iRows[1] # iRows[2]
  /\ KeyOf(iRow[1].v) # KeyOf(iRow[2].v)
  /\ iEmitted[1] # iEmitted[2]
  /\ iPulled[1] = 2 /\ iPulled[2] = 3

\* Both pipelines are done, with different groups.
C18_WitnessDone ==
  /\ iSt[1] = "done" /\ iSt[2] = "done"
  /\ Len(iEmitted[1]) = 3 /\ Len(iEmitted[2]) = 1
  /\ Len(iLines[1]) = 3 /\ Len(iLines[2]) = 1

====
